---------------------------- MODULE Spec2Model ----------------------------
(***************************************************************************)
(* Two micro-benchmarks:                                                   *)
(*   src/FSCache/fs_bench.c            file-system record-size workload    *)
(*   src/falseSharing/falseSharing.c   two threads incrementing counters   *)
(*                                                                         *)
(* fs_bench's main() is modelled statement group by statement group: the   *)
(* program counter pc walks Start -> Parsed -> Validated -> Opened ->      *)
(* Statted -> Running -> Done, or drops to Failed from any of them.        *)
(* 64-bit integers (size_t, long long, off_t) are scaled down to Bits      *)
(* bits; the conversions between the unsigned and the signed type and C's  *)
(* truncating division are kept.                                           *)
(***************************************************************************)
EXTENDS Integers, Sequences, FiniteSets

\* ------------------------------------------------------------------ bounds
\* Width of the scaled-down size_t / long long / off_t.
Bits == 5
\* Largest --record-size below the sign bit that is tried.
MaxRecord == 3
\* Largest --total-bytes that is tried.
MaxTotal == 6
\* Largest size of the file on disk.
MaxFile == 6
\* Explicit --seed values are 0..MaxSeed.
MaxSeed == 1

\* --------------------------------------------------------------- constants
DefaultSeed == 12345
NULL == "NULL"

RECURSIVE Pow2(_)
Pow2(n) == IF n = 0 THEN 1 ELSE 2 * Pow2(n - 1)

\* (long long)x for a size_t x: two's complement reinterpretation.
ToLongLong(x) == IF x >= Pow2(Bits - 1) THEN x - Pow2(Bits) ELSE x

Abs(x) == IF x < 0 THEN 0 - x ELSE x

\* C's integer division and remainder: the quotient truncates toward zero.
CDiv(a, b) ==
    IF (a < 0) = (b < 0) THEN Abs(a) \div Abs(b) ELSE 0 - (Abs(a) \div Abs(b))

CMod(a, b) == a - b * CDiv(a, b)

\* ------------------------------------------------------------------- rand()
\* The C library generator, scaled down: a full-period linear congruential
\* generator on RandMod states; rand() returns the new state.
RandMod == 16
RandMul == 5
RandInc == 3

Srand(s) == s % RandMod

RandNext(state) == (RandMul * state + RandInc) % RandMod

RandValue(state) == state

VARIABLES
    argv,        \* the command line, after strto*: what main() is started with
    env,         \* the machine: which system call fails, if any
    disk_size,   \* the current size of the file on disk
    modified,    \* the file was truncated after the first run started
    pc,
    file_path, mode, record_size, total_bytes, seed,
    fd,          \* "closed" | "open"
    file_size, ops, max_offset,
    rng,         \* the state of the process-wide generator behind rand()
    buf,         \* "none" | "allocated" | "freed"
    i,
    reads,       \* the pread calls made so far: [offset, size, r]
    fileops,     \* every system call made on the file, in order
    exit_code,   \* -1 while the process runs
    err,         \* which diagnostic went to stderr
    run, prev    \* the run in progress, and what the run before it did

\* falseSharing.c
VARIABLES
    fs_argv,         \* atoi(argv[1]), or 0 when there is no argument
    fs_calloc_ok,    \* whether calloc returns memory
    fs_pc,           \* main()'s position
    fs_mode,
    sharedCounters,  \* the array; no cells when calloc returned NULL
    args,            \* args[t].counterToIncrement: an index into the array
    th_pc, th_i,     \* per thread: position, loop counter
    th_reg           \* per thread: the value loaded by the increment

benchVars == <<argv, env, disk_size, modified, pc, file_path, mode,
               record_size, total_bytes, seed, fd, file_size, ops, max_offset,
               rng, buf, i, reads, fileops, exit_code, err, run, prev>>

fsVars == <<fs_argv, fs_calloc_ok, fs_pc, fs_mode, sharedCounters, args,
            th_pc, th_i, th_reg>>

vars == <<benchVars, fsVars>>

procVars == <<pc, file_path, mode, record_size, total_bytes, seed, fd,
              file_size, ops, max_offset, rng, buf, i, reads, fileops,
              exit_code, err>>

\* ------------------------------------------------------------------ inputs
Modes == {NULL, "rand", "seq", "bogus"}

\* --record-size as strtoull leaves it: 0 stands for an absent or unparsable
\* value; the two largest values have the sign bit set.
RecordSizes == (0 .. MaxRecord) \cup {Pow2(Bits - 1), Pow2(Bits) - 1}

TotalBytes == -1 .. MaxTotal

\* --seed as strtoul leaves it, or NoSeed when the option is not given.
NoSeed == 0 - 1

Seeds == {NoSeed} \cup (0 .. MaxSeed)

Argvs ==
    [file : {NULL, "data.bin"}, mode : Modes, record_size : RecordSizes,
     total_bytes : TotalBytes, seed : Seeds, unknown : BOOLEAN]

\* At most one thing is wrong with the machine: open, fstat or malloc fails,
\* or one byte of the file (bad_byte) cannot be read.
Envs ==
    {[fault |-> f, bad_byte |-> 0 - 1] : f \in {"none", "open", "fstat", "malloc"}}
    \cup {[fault |-> "pread", bad_byte |-> b] : b \in 0 .. MaxFile - 1}

\* ------------------------------------------------------------------- state
ProcInit ==
    /\ pc = "Start"
    /\ file_path = NULL
    /\ mode = NULL
    /\ record_size = 0
    /\ total_bytes = 0
    /\ seed = DefaultSeed
    /\ fd = "closed"
    /\ file_size = 0
    /\ ops = 0
    /\ max_offset = 0
    /\ rng = Srand(1)
    /\ buf = "none"
    /\ i = 0
    /\ reads = <<>>
    /\ fileops = <<>>
    /\ exit_code = -1
    /\ err = "none"

\* falseSharing.c before main() starts.
Threads == {1, 2}

\* A null sharedCounters: an array with no cells.
NullArray == <<>>

IsNull(array) == DOMAIN array = {}

FsProcInit ==
    /\ fs_pc = "start"
    /\ fs_mode = 0
    /\ sharedCounters = NullArray
    /\ args = [t \in Threads |-> 0]
    /\ th_pc = [t \in Threads |-> "unborn"]
    /\ th_i = [t \in Threads |-> 0]
    /\ th_reg = [t \in Threads |-> 0]

Init ==
    /\ argv \in Argvs
    /\ env \in Envs
    /\ disk_size \in 0 .. MaxFile
    /\ modified = FALSE
    /\ run = 1
    /\ prev = [exit_code |-> 0 - 1, reads |-> <<>>]
    /\ ProcInit
    /\ fs_argv = 0
    /\ fs_calloc_ok = TRUE
    /\ FsProcInit

\* return 1 after a diagnostic; the descriptor is closed where the code does.
Fail(e, closes) ==
    /\ pc' = "Failed"
    /\ err' = e
    /\ exit_code' = 1
    /\ fd' = IF closes THEN "closed" ELSE fd
    /\ fileops' = IF closes THEN Append(fileops, "close") ELSE fileops

\* ----------------------------------------------------------------- actions
\* Lines 47-63: the argument loop. An unknown option, or an option without
\* its value, ends the run; otherwise each given option sets its variable.
ParseArgs ==
    /\ pc = "Start"
    /\ IF argv.unknown
       THEN /\ Fail("UnknownArg", FALSE)
            /\ UNCHANGED <<file_path, mode, record_size, total_bytes, seed>>
       ELSE /\ pc' = "Parsed"
            /\ file_path' = argv.file
            /\ mode' = argv.mode
            /\ record_size' = argv.record_size
            /\ total_bytes' = argv.total_bytes
            /\ seed' = IF argv.seed = NoSeed THEN DefaultSeed ELSE argv.seed
            /\ UNCHANGED <<err, exit_code, fd, fileops>>
    /\ UNCHANGED fsVars
    /\ UNCHANGED <<argv, env, disk_size, modified, file_size, ops, max_offset,
                   rng, buf, i, reads, run, prev>>

\* Lines 65-78: the required arguments, then the mode literal.
MissingRequired ==
    file_path = NULL \/ mode = NULL \/ record_size = 0 \/ total_bytes <= 0

ModeRand(m) == m = "rand"

ModeSeq(m) == m = "seq"

ValidateArgs ==
    /\ pc = "Parsed"
    /\ IF MissingRequired
       THEN Fail("MissingField", FALSE)
       ELSE IF ~(ModeRand(mode) \/ ModeSeq(mode))
       THEN Fail("InvalidMode", FALSE)
       ELSE /\ pc' = "Validated"
            /\ UNCHANGED <<err, exit_code, fd, fileops>>
    /\ UNCHANGED fsVars
    /\ UNCHANGED <<argv, env, disk_size, modified, file_path, mode,
                   record_size, total_bytes, seed, file_size, ops, max_offset,
                   rng, buf, i, reads, run, prev>>

\* Lines 81-86: open(file_path, O_RDONLY).
OpenFile ==
    /\ pc = "Validated"
    /\ IF env.fault = "open"
       THEN /\ pc' = "Failed"
            /\ err' = "OpenError"
            /\ exit_code' = 1
            /\ fd' = fd
       ELSE /\ pc' = "Opened"
            /\ fd' = "open"
            /\ UNCHANGED <<err, exit_code>>
    /\ fileops' = Append(fileops, "open")
    /\ UNCHANGED fsVars
    /\ UNCHANGED <<argv, env, disk_size, modified, file_path, mode,
                   record_size, total_bytes, seed, file_size, ops, max_offset,
                   rng, buf, i, reads, run, prev>>

\* Faulty variant: a file one byte short is let through.
FileTooSmallOffByOne(fsize, total) == fsize < total - 1

\* Line 105: the working set must fit in the file.
FileTooSmall(fsize, total) == fsize < total

\* Lines 89-111: fstat, then the two checks of the size.
StatFile ==
    /\ pc = "Opened"
    /\ IF env.fault = "fstat"
       THEN /\ pc' = "Failed"
            /\ err' = "StatError"
            /\ exit_code' = 1
            /\ fd' = "closed"
            /\ fileops' = fileops \o <<"fstat", "close">>
            /\ file_size' = file_size
       ELSE /\ file_size' = disk_size
            /\ IF disk_size <= 0
               THEN /\ pc' = "Failed"
                    /\ err' = "NonPositiveSize"
                    /\ exit_code' = 1
                    /\ fd' = "closed"
                    /\ fileops' = fileops \o <<"fstat", "close">>
               ELSE IF FileTooSmall(disk_size, total_bytes)
               THEN /\ pc' = "Failed"
                    /\ err' = "FileTooSmall"
                    /\ exit_code' = 1
                    /\ fd' = "closed"
                    /\ fileops' = fileops \o <<"fstat", "close">>
               ELSE /\ pc' = "Statted"
                    /\ fileops' = Append(fileops, "fstat")
                    /\ UNCHANGED <<err, exit_code, fd>>
    /\ UNCHANGED fsVars
    /\ UNCHANGED <<argv, env, disk_size, modified, file_path, mode,
                   record_size, total_bytes, seed, ops, max_offset, rng, buf,
                   i, reads, run, prev>>

\* Faulty variant: the operation count is rounded up.
OpCountRoundedUp(total, rsize) ==
    CDiv(total + ToLongLong(rsize) - 1, ToLongLong(rsize))

\* Line 113: ops = total_bytes / (long long)record_size.
OpCount(total, rsize) == CDiv(total, ToLongLong(rsize))

\* Faulty variant: the record size is not taken off.
MaxOffsetWholeSet(total, rsize) == total

\* Line 123: max_offset = total_bytes - (long long)record_size.
MaxOffset(total, rsize) == total - ToLongLong(rsize)

\* Lines 113-136: the plan, srand(seed), the buffer.
PlanWorkload ==
    /\ pc = "Statted"
    /\ ops' = OpCount(total_bytes, record_size)
    /\ IF ops' <= 0
       THEN /\ Fail("DegenerateWorkload", TRUE)
            /\ UNCHANGED <<max_offset, rng, buf>>
       ELSE /\ max_offset' = MaxOffset(total_bytes, record_size)
            /\ rng' = Srand(seed)
            /\ IF env.fault = "malloc"
               THEN /\ Fail("MallocError", TRUE)
                    /\ buf' = buf
               ELSE /\ pc' = "Running"
                    /\ buf' = "allocated"
                    /\ UNCHANGED <<err, exit_code, fd, fileops>>
    /\ i' = 0
    /\ UNCHANGED fsVars
    /\ UNCHANGED <<argv, env, disk_size, modified, file_path, mode,
                   record_size, total_bytes, seed, file_size, reads, run, prev>>

\* Faulty variant: one block too many.
BlockCountPlusTwo(maxoff, rsize) == CDiv(maxoff, ToLongLong(rsize)) + 2

\* Lines 144, 148: (long long)(max_offset / (off_t)record_size) + 1.
BlockCount(maxoff, rsize) == CDiv(maxoff, ToLongLong(rsize)) + 1

\* Line 145: rand() % block_count.
RandBlockId(draw, count) == CMod(draw, count)

\* Faulty variant: the sequential walk starts at the second block.
SeqBlockIdFromOne(k, count) == CMod(k + 1, count)

\* Line 148: i % block_count.
SeqBlockId(k, count) == CMod(k, count)

\* Lines 146, 149: block_id * (long long)record_size.
BlockOffset(block_id, rsize) == block_id * ToLongLong(rsize)

\* Faulty variant: two draws per iteration.
AdvanceRngTwice(state) == RandNext(RandNext(state))

\* Line 145: one call of rand() moves the generator one step.
AdvanceRng(state) == RandNext(state)

\* Line 152: pread(fd, buf, size, offset) on the file as it is now: -1 on an
\* I/O error, otherwise the bytes available from offset, at most size.
Pread(offset, size) ==
    IF env.bad_byte \in offset .. offset + size - 1 THEN 0 - 1
    ELSE IF offset >= disk_size THEN 0
    ELSE IF disk_size - offset < size THEN disk_size - offset
    ELSE size

\* Faulty variant: the result of pread is not looked at.
ReadFailedIgnored(r) == FALSE

\* Line 153: if (r < 0).
ReadFailed(r) == r < 0

\* Faulty variant: the loop runs once too often.
LoopContinuesOffByOne(k, n) == k <= n

\* Line 139: i < ops.
LoopContinues(k, n) == k < n

\* Lines 139-162: one iteration of the workload loop.
ReadStep ==
    /\ pc = "Running"
    /\ LoopContinues(i, ops)
    /\ LET count == BlockCount(max_offset, record_size)
           block_id == IF ModeRand(mode)
                       THEN RandBlockId(RandValue(AdvanceRng(rng)), count)
                       ELSE SeqBlockId(i, count)
           offset == BlockOffset(block_id, record_size)
           r == Pread(offset, record_size)
       IN  /\ rng' = IF ModeRand(mode) THEN AdvanceRng(rng) ELSE rng
           /\ reads' = Append(reads, [offset |-> offset, size |-> record_size,
                                      r |-> r])
           /\ IF ReadFailed(r)
              THEN /\ pc' = "Failed"
                   /\ err' = "ReadError"
                   /\ exit_code' = 1
                   /\ buf' = "freed"
                   /\ fd' = "closed"
                   /\ fileops' = fileops \o <<"pread", "close">>
                   /\ i' = i
              ELSE /\ i' = i + 1
                   /\ fileops' = Append(fileops, "pread")
                   /\ UNCHANGED <<pc, err, exit_code, buf, fd>>
    /\ UNCHANGED fsVars
    /\ UNCHANGED <<argv, env, disk_size, modified, file_path, mode,
                   record_size, total_bytes, seed, file_size, ops, max_offset,
                   run, prev>>

\* Lines 164-166: free, close, return 0.
Finish ==
    /\ pc = "Running"
    /\ ~LoopContinues(i, ops)
    /\ pc' = "Done"
    /\ buf' = "freed"
    /\ fd' = "closed"
    /\ fileops' = Append(fileops, "close")
    /\ exit_code' = 0
    /\ UNCHANGED fsVars
    /\ UNCHANGED <<argv, env, disk_size, modified, file_path, mode,
                   record_size, total_bytes, seed, file_size, ops, max_offset,
                   rng, i, reads, err, run, prev>>

\* The surroundings: somebody truncates the file, once, while the loop runs
\* (a truncation before fstat is a smaller file to begin with).
Truncate ==
    /\ pc = "Running"
    /\ ~modified
    /\ \E n \in 0 .. disk_size - 1 : disk_size' = n
    /\ modified' = TRUE
    /\ UNCHANGED fsVars
    /\ UNCHANGED <<argv, env, procVars, run, prev>>

Terminated == pc \in {"Done", "Failed"}

\* The same command line is started a second time on the same machine.
Rerun ==
    /\ Terminated
    /\ run = 1
    /\ run' = 2
    /\ prev' = [exit_code |-> exit_code, reads |-> reads]
    /\ pc' = "Start"
    /\ file_path' = NULL
    /\ mode' = NULL
    /\ record_size' = 0
    /\ total_bytes' = 0
    /\ seed' = DefaultSeed
    /\ fd' = "closed"
    /\ file_size' = 0
    /\ ops' = 0
    /\ max_offset' = 0
    /\ rng' = Srand(1)
    /\ buf' = "none"
    /\ i' = 0
    /\ reads' = <<>>
    /\ fileops' = <<>>
    /\ exit_code' = -1
    /\ err' = "none"
    /\ UNCHANGED fsVars
    /\ UNCHANGED <<argv, env, disk_size, modified>>

Step ==
    \/ ParseArgs
    \/ ValidateArgs
    \/ OpenFile
    \/ StatFile
    \/ PlanWorkload
    \/ ReadStep
    \/ Finish
    \/ Truncate

Next == Step

Spec == Init /\ [][Next]_vars

NextTwice == Step \/ Rerun

SpecTwice == Init /\ [][NextTwice]_vars

\* ---------------------------------------------------------- falseSharing.c
\* The per-thread iteration count (500000000 in the source), scaled down.
iterations == 2
\* atoi(argv[1]) is one of -1 .. MaxModeArg.
MaxModeArg == 2

PADDING_INDEX == 16
ArrayLen == 32

\* Faulty variant: with false sharing on, both threads get cell 0.
SecondIndexSameCell(m) == IF m # 0 THEN 0 ELSE PADDING_INDEX

\* Lines 62-68: the cell the second thread is pointed at.
SecondIndex(m) == IF m # 0 THEN 1 ELSE PADDING_INDEX

\* Lines 33-69: mode, calloc, the two argument blocks.
FsSetup ==
    /\ fs_pc = "start"
    /\ fs_mode' = fs_argv
    /\ sharedCounters' = IF fs_calloc_ok
                         THEN [k \in 0 .. ArrayLen - 1 |-> 0]
                         ELSE NullArray
    /\ args' = [args EXCEPT ![1] = 0, ![2] = SecondIndex(fs_argv)]
    /\ fs_pc' = "create1"
    /\ UNCHANGED <<fs_argv, fs_calloc_ok, th_pc, th_i, th_reg>>
    /\ UNCHANGED benchVars

\* Lines 76-77: pthread_create, one thread after the other.
FsCreate(t, here, there) ==
    /\ fs_pc = here
    /\ th_pc' = [th_pc EXCEPT ![t] = "loop"]
    /\ fs_pc' = there
    /\ UNCHANGED <<fs_argv, fs_calloc_ok, fs_mode, sharedCounters, args, th_i,
                   th_reg>>
    /\ UNCHANGED benchVars

FsCreate1 == FsCreate(1, "create1", "create2")

FsCreate2 == FsCreate(2, "create2", "join1")

\* Line 27, first half: the thread reads its counter. Through a null array
\* the read is undefined; the process is taken to die of it.
ThLoad(t) ==
    /\ th_pc[t] = "loop"
    /\ fs_pc # "crashed"
    /\ th_i[t] < iterations
    /\ IF IsNull(sharedCounters)
       THEN /\ fs_pc' = "crashed"
            /\ UNCHANGED <<th_pc, th_reg>>
       ELSE /\ th_reg' = [th_reg EXCEPT ![t] = sharedCounters[args[t]]]
            /\ th_pc' = [th_pc EXCEPT ![t] = "store"]
            /\ fs_pc' = fs_pc
    /\ UNCHANGED <<fs_argv, fs_calloc_ok, fs_mode, sharedCounters, args, th_i>>
    /\ UNCHANGED benchVars

\* Line 27, second half, and i++ of line 25: the thread writes back the
\* value it read plus one.
ThStore(t) ==
    /\ th_pc[t] = "store"
    /\ sharedCounters' = [sharedCounters EXCEPT ![args[t]] = th_reg[t] + 1]
    /\ th_i' = [th_i EXCEPT ![t] = th_i[t] + 1]
    /\ th_pc' = [th_pc EXCEPT ![t] = "loop"]
    /\ UNCHANGED <<fs_argv, fs_calloc_ok, fs_pc, fs_mode, args, th_reg>>
    /\ UNCHANGED benchVars

\* Lines 25, 29: the loop ends and the thread returns.
ThReturn(t) ==
    /\ th_pc[t] = "loop"
    /\ fs_pc # "crashed"
    /\ th_i[t] >= iterations
    /\ th_pc' = [th_pc EXCEPT ![t] = "returned"]
    /\ UNCHANGED <<fs_argv, fs_calloc_ok, fs_pc, fs_mode, sharedCounters, args,
                   th_i, th_reg>>
    /\ UNCHANGED benchVars

\* Lines 80-81: pthread_join waits for the thread to return.
FsJoin(t, here, there) ==
    /\ fs_pc = here
    /\ th_pc[t] = "returned"
    /\ fs_pc' = there
    /\ UNCHANGED <<fs_argv, fs_calloc_ok, fs_mode, sharedCounters, args, th_pc,
                   th_i, th_reg>>
    /\ UNCHANGED benchVars

FsJoin1 == FsJoin(1, "join1", "join2")

FsJoin2 == FsJoin(2, "join2", "joined")

\* Lines 84-91: the time is printed, the array freed, main returns 0.
FsFinish ==
    /\ fs_pc = "joined"
    /\ fs_pc' = "done"
    /\ UNCHANGED <<fs_argv, fs_calloc_ok, fs_mode, sharedCounters, args, th_pc,
                   th_i, th_reg>>
    /\ UNCHANGED benchVars

FsInit ==
    /\ argv = [file |-> NULL, mode |-> NULL, record_size |-> 0,
               total_bytes |-> 0, seed |-> NoSeed, unknown |-> FALSE]
    /\ env = [fault |-> "none", bad_byte |-> 0 - 1]
    /\ disk_size = 0
    /\ modified = FALSE
    /\ run = 1
    /\ prev = [exit_code |-> 0 - 1, reads |-> <<>>]
    /\ ProcInit
    /\ fs_argv \in (0 - 1) .. MaxModeArg
    /\ fs_calloc_ok \in BOOLEAN
    /\ FsProcInit

FsNext ==
    \/ FsSetup
    \/ FsCreate1
    \/ FsCreate2
    \/ \E t \in Threads : ThLoad(t)
    \/ \E t \in Threads : ThStore(t)
    \/ \E t \in Threads : ThReturn(t)
    \/ FsJoin1
    \/ FsJoin2
    \/ FsFinish

SpecFalseSharing == FsInit /\ [][FsNext]_vars

\* ================================================================== claims
\* The loop was entered: the run is in it, finished it, or died in it.
InLoop == pc = "Running" \/ pc = "Done" \/ (pc = "Failed" /\ err = "ReadError")

NoReadError == \A k \in 1 .. Len(reads) : reads[k].r >= 0

\* The command line passes the argument checks: it names a file and a known
\* mode and gives positive sizes.
ArgsAccepted ==
    /\ ~argv.unknown
    /\ argv.file # NULL
    /\ argv.mode \in {"rand", "seq"}
    /\ argv.record_size > 0
    /\ argv.total_bytes > 0

\* ... and its sizes make a working set of at least one record.
ValidArgs == ArgsAccepted /\ argv.record_size <= argv.total_bytes

C2_OffsetsInWorkingSet ==
    \A k \in 1 .. Len(reads) :
        /\ 0 <= reads[k].offset
        /\ reads[k].offset <= total_bytes - record_size
        /\ reads[k].offset % record_size = 0
        /\ reads[k].size = record_size
        /\ reads[k].offset + reads[k].size <= total_bytes
        /\ total_bytes <= file_size

C2_Witness ==
    /\ mode = "rand"
    /\ Len(reads) >= 2
    /\ reads[Len(reads)].offset = total_bytes - record_size
    /\ reads[Len(reads)].offset > 0
    /\ total_bytes = file_size

\* C3: in seq mode the i-th read (i = 0 .. op_count - 1) is at offset
\* (i mod block_count) * record_size, with block_count = (total_bytes -
\* record_size) div record_size + 1, the reads being issued in increasing
\* order of i; the formula does not mention the seed, so the sequence is the
\* same for every --seed.
C3_SeqOffsets ==
    (mode = "seq" /\ InLoop)
    => LET block_count == (total_bytes - record_size) \div record_size + 1
       IN  /\ \A k \in 1 .. Len(reads) :
                 reads[k].offset = ((k - 1) % block_count) * record_size
           /\ pc = "Running" => i = Len(reads)
           /\ pc = "Done" => Len(reads) = ops

C3_Witness ==
    /\ mode = "seq"
    /\ pc = "Done"
    /\ Len(reads) >= 3
    /\ argv.seed # NoSeed
    /\ seed # DefaultSeed

\* The generator's state after n calls of rand() from state s.
RECURSIVE NthState(_, _)
NthState(s, n) == IF n = 0 THEN s ELSE RandNext(NthState(s, n - 1))

\* What a run asked of the file: the (offset, size) of each read, in order.
ReadPlan(rs) == [k \in 1 .. Len(rs) |-> <<rs[k].offset, rs[k].size>>]

\* C4: a second run with the same arguments on the same machine against the
\* unmodified file ends with the same exit code after the same sequence of
\* (offset, size) reads; and in rand mode the k-th offset is (draw mod
\* block_count) * record_size, draw being the k-th value of a generator
\* seeded once with the seed before the loop and advanced once per
\* iteration.
C4_Reproducible ==
    /\ (run = 2 /\ Terminated /\ ~modified)
       => /\ exit_code = prev.exit_code
          /\ ReadPlan(reads) = ReadPlan(prev.reads)
    /\ (mode = "rand" /\ InLoop)
       => LET block_count == (total_bytes - record_size) \div record_size + 1
          IN  /\ rng = NthState(seed % RandMod, Len(reads))
              /\ \A k \in 1 .. Len(reads) :
                    reads[k].offset =
                        (RandValue(NthState(seed % RandMod, k)) % block_count)
                        * record_size

C4_Witness ==
    /\ run = 2
    /\ pc = "Done"
    /\ ~modified
    /\ mode = "rand"
    /\ Len(reads) >= 3
    /\ reads = prev.reads
    /\ \E k \in 1 .. Len(reads) : reads[k].offset # reads[1].offset

\* How far main() has come.
Rank(p) ==
    CASE p = "Start" -> 0
      [] p = "Parsed" -> 1
      [] p = "Validated" -> 2
      [] p = "Opened" -> 3
      [] p = "Statted" -> 4
      [] p = "Running" -> 5
      [] OTHER -> 6

\* C5: a read that returns an error ends the run at once: that read is the
\* last one (no retry, no later iteration), the process exits non-zero with
\* the read diagnostic, and Failed is terminal: no step leaves it, adds a
\* read to it or changes its exit code, and no step goes back to an earlier
\* position.
C5_ReadErrorIsFatal ==
    [][/\ (Len(reads') > Len(reads) /\ reads'[Len(reads')].r < 0)
          => /\ pc' = "Failed"
             /\ exit_code' = 1
             /\ err' = "ReadError"
       /\ \A k \in 1 .. Len(reads) : reads[k].r < 0 => reads' = reads
       /\ pc = "Failed"
          => /\ pc' = "Failed"
             /\ exit_code # 0
             /\ exit_code' = exit_code
             /\ reads' = reads
             /\ fileops' = fileops
       /\ Rank(pc') >= Rank(pc)]_vars

C5_Witness ==
    /\ pc = "Failed"
    /\ err = "ReadError"
    /\ Len(reads) >= 2
    /\ Len(reads) < ops
    /\ reads[Len(reads)].r < 0
    /\ exit_code = 1

\* The file was opened and fstat succeeded on it.
SizeKnown == Len(fileops) >= 2 /\ fileops[2] = "fstat" /\ env.fault # "fstat"

\* C6, as claimed: whenever the file is strictly smaller than total_bytes
\* the run fails with the FileTooSmall error, a non-zero status and no read.
C6_AsClaimed ==
    (ArgsAccepted /\ SizeKnown /\ file_size < total_bytes)
    => /\ err = "FileTooSmall"
       /\ exit_code # 0
       /\ reads = <<>>

\* C6, amended: whenever the file is strictly smaller than total_bytes the
\* run ends with a non-zero status and without a read, for every mode and
\* record_size; once the file is opened and its size known, the error is
\* FileTooSmall if the file is not empty, and the non-positive-size error
\* if it is empty.
C6_SmallFileFails ==
    /\ (Terminated /\ ~modified /\ disk_size < argv.total_bytes)
       => exit_code = 1 /\ reads = <<>>
    /\ (SizeKnown /\ file_size < total_bytes)
       => /\ pc = "Failed"
          /\ exit_code = 1
          /\ reads = <<>>
          /\ err = IF file_size > 0 THEN "FileTooSmall" ELSE "NonPositiveSize"

C6_Witness ==
    /\ pc = "Failed"
    /\ err = "FileTooSmall"
    /\ 0 < file_size
    /\ file_size < total_bytes
    /\ record_size <= file_size
    /\ reads = <<>>

\* C7, as claimed: whenever record_size > total_bytes the run fails with
\* the DegenerateWorkload error and a non-zero status, issues no read, and
\* does nothing to the file but open and fstat.
C7_AsClaimed ==
    (/\ Terminated
     /\ ArgsAccepted
     /\ env.fault = "none"
     /\ argv.record_size > argv.total_bytes)
    => /\ err = "DegenerateWorkload"
       /\ exit_code # 0
       /\ reads = <<>>
       /\ \A k \in 1 .. Len(fileops) : fileops[k] \in {"open", "fstat"}

\* C7, amended: whenever record_size > total_bytes the run ends with a
\* non-zero status and without a read; when nothing earlier stops it (the
\* arguments are otherwise valid, the file opens, its size is read and is
\* at least total_bytes), the error is DegenerateWorkload and the file
\* sees exactly open, fstat and close.
C7_DegenerateFails ==
    (Terminated /\ argv.record_size > argv.total_bytes)
    => /\ exit_code = 1
       /\ reads = <<>>
       /\ (/\ ArgsAccepted
           /\ env.fault \notin {"open", "fstat"}
           /\ disk_size >= argv.total_bytes)
          => /\ err = "DegenerateWorkload"
             /\ fileops = <<"open", "fstat", "close">>

C7_Witness ==
    /\ pc = "Failed"
    /\ err = "DegenerateWorkload"
    /\ 0 < total_bytes
    /\ total_bytes < record_size
    /\ record_size <= MaxRecord
    /\ fileops = <<"open", "fstat", "close">>

\* C8, as claimed: a read that returns fewer bytes than record_size makes
\* the run fail with a non-zero status instead of going on.
C8_ShortReadFails ==
    \A k \in 1 .. Len(reads) :
        (0 <= reads[k].r /\ reads[k].r < reads[k].size)
        => pc = "Failed" /\ exit_code # 0

\* C9: in every run that reaches the loop, block_count as the loop computes
\* it equals op_count = total_bytes div record_size; so in seq mode i never
\* wraps: the offsets are 0, record_size, 2 * record_size, ..., strictly
\* increasing, and a run that completes has read every block-aligned offset
\* of the working set exactly once.
C9_BlockCountIsOpCount ==
    InLoop
    => /\ BlockCount(max_offset, record_size) = ops
       /\ (total_bytes - record_size) \div record_size + 1
            = total_bytes \div record_size
       /\ ops = total_bytes \div record_size
       /\ mode = "seq"
          => /\ \A k \in 1 .. Len(reads) :
                    reads[k].offset = (k - 1) * record_size
             /\ \A k \in 1 .. Len(reads) - 1 :
                    reads[k].offset < reads[k + 1].offset
             /\ pc = "Done"
                => /\ {reads[k].offset : k \in 1 .. Len(reads)}
                        = {o \in 0 .. total_bytes - 1 :
                             o % record_size = 0
                             /\ o + record_size <= total_bytes}
                   /\ Len(reads)
                        = Cardinality({reads[k].offset : k \in 1 .. Len(reads)})

C9_Witness ==
    /\ pc = "Done"
    /\ mode = "seq"
    /\ ops >= 2
    /\ total_bytes % record_size # 0
    /\ reads[Len(reads)].offset = (ops - 1) * record_size

\* C10: in either mode the two threads point at different cells of the
\* zeroed 32-cell array (0 and 1, or 0 and 16), so whatever the interleaving
\* of their loads and stores no increment is lost: once both are joined,
\* each of the two cells holds the per-thread iteration count and every
\* other cell holds 0.
C10_NoLostUpdate ==
    /\ ~IsNull(sharedCounters) => DOMAIN sharedCounters = 0 .. 31
    /\ fs_pc \notin {"start", "crashed"} =>
          /\ args[1] = 0
          /\ args[2] = IF fs_mode # 0 THEN 1 ELSE 16
    /\ fs_pc = "joined"
       => \A k \in 0 .. 31 :
             sharedCounters[k] =
                 IF k = 0 \/ k = (IF fs_mode # 0 THEN 1 ELSE 16)
                 THEN iterations
                 ELSE 0

C10_Witness ==
    /\ fs_pc = "joined"
    /\ fs_mode # 0
    /\ sharedCounters[0] = iterations
    /\ sharedCounters[1] = iterations
    /\ sharedCounters[16] = 0
=============================================================================
